---- MODULE Spec2Model ----
(***************************************************************************)
(* Directional shell expansion (expandDirectional) of OpenJSCAD's modeling *)
(* package.  The repository holds several implementations of the same     *)
(* operation; each is modelled as one action that runs the whole call.     *)
(*                                                                         *)
(* Numbers.  A coordinate is an integer count of length units; One units  *)
(* make the JavaScript number 1.  The unit is 1e-7, so that EPS (1e-5) and *)
(* the sixth decimal used by toFixed(6) are whole numbers of units.        *)
(* A vertex is a triple <<x, y, z>>, a polygon the sequence of its         *)
(* vertices (poly3.create(vertices)), a geom3 a sequence of polygons.      *)
(***************************************************************************)
EXTENDS Integers, Sequences, FiniteSets, TLC

VARIABLES
    pc,            \* "idle" | "returned" | "threw": outcome of the last call
    variant,       \* which implementation of expandDirectional was called
    options,       \* the options object after Object.assign({}, defaults, options)
    geometry,      \* the input geometry (its polygon list)
    dirVec,        \* directionVector / targetDirection chosen by the switch
    parts,         \* the pieces pushed / unioned into the result, in order
    edgeMap,       \* edgeMap / edges2planes at the end of the call
    vertexMap,     \* vertices2planes at the end of the call
    unionCalls,    \* number of unionGeom3Sub calls started
    raisedAt,      \* which unionGeom3Sub call raised (0: none did)
    retessellated, \* TRUE iff retessellate(result) was executed
    stale,         \* TRUE iff a map of an earlier call still held entries
                   \* when the call started
    keyed,         \* two edges and the keys one of the key functions gave them
    input          \* the vertex arrays of the input polygons after the call

vars == <<pc, variant, options, geometry, dirVec, parts, edgeMap, vertexMap,
          unionCalls, raisedAt, retessellated, stale, keyed, input>>

---------------------------------------------------------------------------
(* Scale and sequence helpers *)

One == 10 ^ 7
Half == One \div 2
EPS == One \div 100000

Abs(n) == IF n < 0 THEN -n ELSE n
Max(a, b) == IF a > b THEN a ELSE b

\* Array.prototype.reverse
Reverse(s) == [i \in 1..Len(s) |-> s[Len(s) + 1 - i]]

RECURSIVE Concat(_)
Concat(ss) ==
    IF Len(ss) = 0 THEN <<>>
    ELSE IF Len(ss) = 1 THEN ss[1]
    ELSE Concat(SubSeq(ss, 1, Len(ss) \div 2))
         \o Concat(SubSeq(ss, (Len(ss) \div 2) + 1, Len(ss)))

\* exact integer square root (the lengths of the meshes stay below 64 on the
\* half-one grid); 0 - 1 when n is no perfect square
Sqrt(n) ==
    LET roots == {r \in 0..64 : r * r = n}
    IN  IF roots = {} THEN 0 - 1 ELSE CHOOSE r \in roots : TRUE

---------------------------------------------------------------------------
(* vec3 *)

vec3add(a, b) == <<a[1] + b[1], a[2] + b[2], a[3] + b[3]>>
vec3subtract(a, b) == <<a[1] - b[1], a[2] - b[2], a[3] - b[3]>>
vec3negate(a) == <<0 - a[1], 0 - a[2], 0 - a[3]>>
vec3dot(a, b) == a[1] * b[1] + a[2] * b[2] + a[3] * b[3]
vec3cross(a, b) ==
    <<a[2] * b[3] - a[3] * b[2], a[3] * b[1] - a[1] * b[3], a[1] * b[2] - a[2] * b[1]>>

\* a vector of units counted in half-ones, so that products stay small
Coarse(a) == <<a[1] \div Half, a[2] \div Half, a[3] \div Half>>

\* vec3.length / vec3.distance of vectors on the half-one grid whose length
\* is rational (every mesh of Meshes is such)
vec3length(a) == Half * Sqrt(vec3dot(Coarse(a), Coarse(a)))
vec3distance(a, b) == vec3length(vec3subtract(b, a))

---------------------------------------------------------------------------
(* Number.prototype.toString and string comparison, as character codes *)

RECURSIVE Digits(_)
Digits(n) == IF n < 10 THEN <<48 + n>> ELSE Digits(n \div 10) \o <<48 + (n % 10)>>

\* the w decimals of f (0 < f < 10^w), trailing zeros dropped
RECURSIVE FracDigits(_, _)
FracDigits(f, w) ==
    IF f % 10 = 0 THEN FracDigits(f \div 10, w - 1)
    ELSE LET d == Digits(f)
         IN  [i \in 1..(w - Len(d)) |-> 48] \o d

\* String(n / One) for a number of n units
NumToString(n) ==
    LET a == Abs(n)
        sign == IF n < 0 THEN <<45>> ELSE <<>>
    IN  IF a = 0 THEN <<48>>
        ELSE IF a < 10 THEN sign \o <<48 + a, 101, 45, 55>>     \* "ae-7"
        ELSE sign \o Digits(a \div One)
                  \o (IF a % One = 0 THEN <<>> ELSE <<46>> \o FracDigits(a % One, 7))

\* s < t on strings (code unit order)
RECURSIVE StrLess(_, _)
StrLess(s, t) ==
    IF t = <<>> THEN FALSE
    ELSE IF s = <<>> THEN TRUE
    ELSE IF Head(s) # Head(t) THEN Head(s) < Head(t)
    ELSE StrLess(Tail(s), Tail(t))

\* `${x},${y},${z}` and Array.prototype.toString of a vertex
VertexString(v) ==
    NumToString(v[1]) \o <<44>> \o NumToString(v[2]) \o <<44>> \o NumToString(v[3])

---------------------------------------------------------------------------
(* Input meshes and options the calls are drawn from *)

V(x, y, z) == <<x * One, y * One, z * One>>

\* the unit cube [0,1]^3, faces wound counter-clockwise seen from outside
Cube ==
    << <<V(0,0,0), V(1,0,0), V(1,0,1), V(0,0,1)>>,      \* y = 0
       <<V(0,1,0), V(0,1,1), V(1,1,1), V(1,1,0)>>,      \* y = 1
       <<V(0,0,0), V(0,1,0), V(1,1,0), V(1,0,0)>>,      \* z = 0
       <<V(0,0,1), V(1,0,1), V(1,1,1), V(0,1,1)>>,      \* z = 1
       <<V(0,0,0), V(0,0,1), V(0,1,1), V(0,1,0)>>,      \* x = 0
       <<V(1,0,0), V(1,1,0), V(1,1,1), V(1,0,1)>> >>    \* x = 1

\* a closed wedge: the 3-4-5 triangle in xy swept along z; its sloped face
\* has the unit normal (0.6, 0.8, 0)
Wedge ==
    << <<V(0,0,0), V(0,3,0), V(4,0,0)>>,                \* z = 0
       <<V(0,0,1), V(4,0,1), V(0,3,1)>>,                \* z = 1
       <<V(0,0,0), V(4,0,0), V(4,0,1), V(0,0,1)>>,      \* y = 0
       <<V(0,0,0), V(0,0,1), V(0,3,1), V(0,3,0)>>,      \* x = 0
       <<V(4,0,0), V(0,3,0), V(0,3,1), V(4,0,1)>> >>    \* slope

\* an open mesh: one triangle facing +y
Tri == << <<V(0,0,0), V(0,0,4), V(3,0,0)>> >>

\* a non-manifold mesh: three quads that share the edge (0,0,0)-(0,1,0)
Fin ==
    << <<V(0,0,0), V(1,0,0), V(1,1,0), V(0,1,0)>>,
       <<V(0,0,0), V(0,1,0), V(0 - 1,1,0), V(0 - 1,0,0)>>,
       <<V(0,0,0), V(0,0,1), V(0,1,1), V(0,1,0)>> >>

\* a mesh with a degenerate polygon (two distinct vertices) next to a valid one
Sliver ==
    << <<V(0,0,0), V(0,0,1), V(1,0,1), V(1,0,0)>>,
       <<V(0,0,0), V(1,0,0), V(1,0,0)>> >>

Meshes == {Cube, Wedge, Tri, Fin, Sliver}

MaxDelta == 1
Deltas == {d * One : d \in (0 - 1)..MaxDelta}
Directions == {"x", "y", "z", "Y", "w"}

\* tolerance is a number of tenths: 9 is the default 0.9
Tolerances == {6, 8, 9}

Options ==
    [delta : Deltas, direction : Directions, tolerance : Tolerances,
     expandUp : BOOLEAN, expandDown : BOOLEAN]

\* options of a variant that reads delta and direction only
PlainOptions == {o \in Options : o.tolerance = 9 /\ o.expandUp /\ ~o.expandDown}

---------------------------------------------------------------------------
(* Polygons, edges, parts *)

\* the consecutive vertex pairs (v_i, v_{(i+1) % n}) of a polygon
EdgesOf(polygon) ==
    [i \in 1..Len(polygon) |-> <<polygon[i], polygon[(i % Len(polygon)) + 1]>>]

\* one piece of the result: kind tells what it is, of what it was built for
Part(kind, of, polys) == [kind |-> kind, of |-> of, polys |-> polys]

\* all polygons of a sequence of parts, in order
PolygonsOf(ps) == Concat([i \in 1..Len(ps) |-> ps[i].polys])

\* what a call leaves behind
Outcome(p, d, ps, em, vm, u, r) ==
    [pc |-> p, dirVec |-> d, parts |-> ps, edgeMap |-> em, vertexMap |-> vm,
     unionCalls |-> u, retessellated |-> r]

---------------------------------------------------------------------------
(* expandDirectional.js, first implementation: translated copy plus walls *)
(* on boundary edges                                                       *)

\* the switch with a default branch that falls to the x axis
DirectionVector_defaultX(direction, delta) ==
    CASE direction = "y" -> <<0, delta, 0>>
      [] direction = "z" -> <<0, 0, delta>>
      [] OTHER -> <<delta, 0, 0>>

\* switch (direction) of the translate variants
DirectionVector(direction, delta) ==
    CASE direction = "x" -> <<delta, 0, 0>>
      [] direction = "y" -> <<0, delta, 0>>
      [] direction = "z" -> <<0, 0, delta>>
      [] OTHER -> <<0, delta, 0>>

KeyQuantum == 1

\* Math.round(num / tolerance) * tolerance; the tolerance 1e-10 is finer than
\* the unit, so the quantum is one unit
round(num) == ((2 * num + KeyQuantum) \div (2 * KeyQuantum)) * KeyQuantum

\* key1 < key2 ? key1 + sep + key2 : key2 + sep + key1
OrderedKey_directed(key1, key2, sep) == key1 \o sep \o key2
OrderedKey(key1, key2, sep) ==
    IF StrLess(key1, key2) THEN key1 \o sep \o key2 ELSE key2 \o sep \o key1

createEdgeKey(v1, v2) ==
    OrderedKey(VertexString(<<round(v1[1]), round(v1[2]), round(v1[3])>>),
               VertexString(<<round(v2[1]), round(v2[2]), round(v2[3])>>), <<124>>)

\* num.toFixed(6) of the variant that counts the edges of the input only:
\* the millionths nearest to |num| (the larger number on a tie) behind the
\* sign of num, six decimals always written
FixedQuantum == One \div 1000000
Millionths(num) == (Abs(num) + FixedQuantum \div 2) \div FixedQuantum
ZeroPadded(f, w) == [i \in 1..(w - Len(Digits(f))) |-> 48] \o Digits(f)
toFixed(num) ==
    (IF num < 0 THEN <<45>> ELSE <<>>)
        \o Digits(Millionths(num) \div 1000000) \o <<46>>
        \o ZeroPadded(Millionths(num) % 1000000, 6)
FixedString(v) == toFixed(v[1]) \o <<44>> \o toFixed(v[2]) \o <<44>> \o toFixed(v[3])

createEdgeKey_toFixed(v1, v2) == OrderedKey(FixedString(v1), FixedString(v2), <<124>>)

\* the indices at which map.has(key) is false, i.e. where a key is seen first
FirstSeen(keys) ==
    SelectSeq([i \in 1..Len(keys) |-> i],
              LAMBDA i : \A j \in 1..(i - 1) : keys[j] # keys[i])

\* the indices at which key is registered, in order
SeenAt(keys, key) ==
    SelectSeq([i \in 1..Len(keys) |-> i], LAMBDA i : keys[i] = key)

\* the edge map after the counting pass: an entry per key in insertion
\* order (firsts), with the edge that set it and the number of edges that
\* hit it
CountEntries_noIncrement(keys, firsts, es) ==
    [m \in 1..Len(firsts) |->
        [key |-> keys[firsts[m]], vertices |-> es[firsts[m]], count |-> 1]]
CountEntries(keys, firsts, es) ==
    [m \in 1..Len(firsts) |->
        [key |-> keys[firsts[m]], vertices |-> es[firsts[m]],
         count |-> Len(SeenAt(keys, keys[firsts[m]]))]]

\* new Map() in the body of the function: empty, whatever the map of an
\* earlier call (held) was left with
NewMap_shared(held) == held
NewMap(held) == <<>>

\* the keys of a map, in insertion order

\* the first registrations of the keys that the map start does not hold
FirstNew(start, keys) ==
    SelectSeq(FirstSeen(keys), LAMBDA i : \A m \in 1..Len(start) : start[m].key # keys[i])

\* edgeMap.get(edgeKey).count++ on the entries the map held at the start
Recount(start, keys) ==
    [m \in 1..Len(start) |->
        [start[m] EXCEPT !.count = @ + Len(SeenAt(keys, start[m].key))]]

CountByKey(start, keys, es) ==
    Recount(start, keys) \o CountEntries(keys, FirstNew(start, keys), es)

\* "First pass: count edge occurrences" over the edges es in order, on the
\* map start
CountEdges(start, es) ==
    CountByKey(start, [i \in 1..Len(es) |-> createEdgeKey(es[i][1], es[i][2])] \o <<>>, es)

AllEdges(polygons) == Concat([p \in 1..Len(polygons) |-> EdgesOf(polygons[p])])

\* the translated polygon: every vertex moved, vertex order reversed
TranslatedReversed(polygon, d) == Reverse([i \in 1..Len(polygon) |-> vec3add(polygon[i], d)])

\* the result list after the loop that pushes the originals and the loop
\* that pushes the translated polygons
OriginalsAndTranslated(polygons, d) ==
    [i \in 1..Len(polygons) |-> Part("original", <<i>>, <<polygons[i]>>)]
    \o [i \in 1..Len(polygons) |->
           Part("translated", <<i>>, <<TranslatedReversed(polygons[i], d)>>)]

\* a wall for every entry that is not shared by exactly two faces
IsBoundaryEntry_notTwo(edgeInfo) == edgeInfo.count # 2

\* is a wall built for this edge-map entry
IsBoundaryEntry(edgeInfo) == edgeInfo.count = 1

\* wallVertices of the boundary variant
BoundaryWall(v1, v2, d) == <<v1, vec3add(v1, d), vec3add(v2, d), v2>>

\* "Second pass: create walls only for boundary edges"
BoundaryWalls(boundary, d) ==
    [i \in 1..Len(boundary) |->
        Part("wall", boundary[i].key,
             <<BoundaryWall(boundary[i].vertices[1], boundary[i].vertices[2], d)>>)]

\* the call once directionVector is chosen and edgeMap is filled
BoundaryWallsResult(polygons, d, map) ==
    Outcome("returned", d,
            OriginalsAndTranslated(polygons, d)
            \o BoundaryWalls(SelectSeq(map, IsBoundaryEntry), d),
            map, <<>>, 0, FALSE)

\* held: the edge map as an earlier call left it
expandDirectional_boundaryWalls(opts, polygons, held) ==
    BoundaryWallsResult(polygons, DirectionVector(opts.direction, opts.delta),
                        CountEdges(NewMap(held), AllEdges(polygons)))

---------------------------------------------------------------------------
(* part_001, second implementation: as the first, with edge keys written  *)
(* by toFixed(6)                                                           *)

\* held: the edge map as an earlier call left it
expandDirectional_toFixed(opts, polygons, held) ==
    BoundaryWallsResult(polygons, DirectionVector(opts.direction, opts.delta),
                        CountByKey(NewMap(held),
                                   [i \in 1..Len(AllEdges(polygons)) |->
                                       createEdgeKey_toFixed(AllEdges(polygons)[i][1],
                                                             AllEdges(polygons)[i][2])]
                                   \o <<>>,
                                   AllEdges(polygons)))

---------------------------------------------------------------------------
(* part_002: translated copy plus a wall for every edge of every polygon *)

\* wallVertices of the wall-per-edge variant
EveryEdgeWall(v1, v2, d) == <<v1, v2, vec3add(v2, d), vec3add(v1, d)>>

\* the walls pushed by the inner loop over the edges es of all polygons
EveryEdgeWalls(es, d) ==
    [i \in 1..Len(es) |->
        Part("wall", createEdgeKey(es[i][1], es[i][2]),
             <<EveryEdgeWall(es[i][1], es[i][2], d)>>)]

\* the call once directionVector is chosen
EveryEdgeWallsResult(polygons, d) ==
    Outcome("returned", d,
            OriginalsAndTranslated(polygons, d) \o EveryEdgeWalls(AllEdges(polygons), d),
            <<>>, <<>>, 0, FALSE)

expandDirectional_everyEdgeWalls(opts, polygons) ==
    EveryEdgeWallsResult(polygons, DirectionVector(opts.direction, opts.delta))

---------------------------------------------------------------------------
(* Collaborators: poly3.plane, poly3.transform, extrudePolygon,           *)
(* unionGeom3Sub, retessellate                                             *)

\* poly3.plane: the plane through the first three vertices.  n is the normal
\* before normalisation, len its length, so the unit normal is n / len and
\* the offset w / len; a degenerate polygon has n = <<0,0,0>> and len = 0
PlaneThrough(n, a) == [n |-> n, len |-> Sqrt(vec3dot(n, n)), w |-> vec3dot(n, a)]
PlaneOfPoints(a, b, c) ==
    PlaneThrough(vec3cross(vec3subtract(b, a), vec3subtract(c, a)), a)
plane(polygon) ==
    PlaneOfPoints(Coarse(polygon[1]), Coarse(polygon[2]), Coarse(polygon[3]))

\* poly3.transform(mat4.fromTranslation(mat4.create(), t), polygon)
translate(t, polygon) == [i \in 1..Len(polygon) |-> vec3add(polygon[i], t)]

\* extrudePolygon(offsetvector, polygon): the face, a wall per edge
\* [v1, v2, v2_far, v1_far], and the far face with its vertex order reversed
ExtrudedWalls(es, offsetvector) ==
    [i \in 1..Len(es) |->
        <<es[i][1], es[i][2], vec3add(es[i][2], offsetvector),
          vec3add(es[i][1], offsetvector)>>]
extrudePolygon(offsetvector, polygon) ==
    <<polygon>> \o ExtrudedWalls(EdgesOf(polygon), offsetvector)
    \o <<Reverse(translate(offsetvector, polygon))>>

\* result = unionGeom3Sub(result, piece) for every piece in order, while an
\* exception is caught and the piece skipped: what the accumulation would do
\* inside a try/catch
UnionFold_caught(d, start, pieces, raise, em, vm, retess) ==
    Outcome("returned", d,
            start \o SelectSeq(pieces, LAMBDA q : raise = 0 \/ q # pieces[raise]),
            em[Len(pieces) + 1], vm[Len(pieces) + 1], Len(pieces), retess)

\* result = unionGeom3Sub(result, piece) for every piece in order, then finish.
\* start holds what result is made of before the first union.  raise = 0: no
\* union raises; raise = k: the k-th unionGeom3Sub call raises, the exception
\* leaves expandDirectional and nothing after that call runs.
\* em[k], vm[k]: the maps as they are when the k-th call is made.
UnionFold(d, start, pieces, raise, em, vm, retess) ==
    IF raise = 0
    THEN Outcome("returned", d, start \o pieces, em[Len(pieces) + 1],
                 vm[Len(pieces) + 1], Len(pieces), retess)
    ELSE Outcome("threw", d, start \o SubSeq(pieces, 1, raise - 1), em[raise],
                 vm[raise], raise, FALSE)

---------------------------------------------------------------------------
(* mapPlaneToEdge, mapPlaneToVertex (part_001, part_003) *)

\* the key of mapPlaneToEdge: edge[0].toString() and edge[1].toString(),
\* the lesser first, joined by a comma
EdgeKeyOf(edge) == OrderedKey(VertexString(edge[1]), VertexString(edge[2]), <<44>>)

\* the registrations of the face loop for polygon: <<edge, plane>> per edge
\* and <<vertex, plane>> per vertex
EdgeRegistrations(polygon) ==
    [i \in 1..Len(polygon) |-> <<EdgesOf(polygon)[i], plane(polygon)>>]
VertexRegistrations(polygon) ==
    [i \in 1..Len(polygon) |-> <<polygon[i], plane(polygon)>>]

\* the planes pushed under one key: those of the registrations at
PlanesAt(at, rs) == [k \in 1..Len(at) |-> rs[at[k]][2]]

\* edges2planes: an entry [edge, [plane, ...]] per key in insertion order
EdgeEntries(keys, firsts, rs) ==
    [m \in 1..Len(firsts) |->
        [key |-> keys[firsts[m]], edge |-> rs[firsts[m]][1],
         planes |-> PlanesAt(SeenAt(keys, keys[firsts[m]]), rs)]]

\* planes.push(plane) on the entries the map held at the start
Repush(start, keys, rs) ==
    [m \in 1..Len(start) |->
        [start[m] EXCEPT !.planes = @ \o PlanesAt(SeenAt(keys, start[m].key), rs)]]

EdgesByKey(start, keys, rs) ==
    Repush(start, keys, rs) \o EdgeEntries(keys, FirstNew(start, keys), rs)

\* mapPlaneToEdge for the registrations rs in order, on the map start
mapPlaneToEdge(start, rs) ==
    EdgesByKey(start, [i \in 1..Len(rs) |-> EdgeKeyOf(rs[i][1])] \o <<>>, rs)

\* vertices2planes: an entry [vertex, [plane, ...]] per key in insertion order
VertexEntries(keys, firsts, rs) ==
    [m \in 1..Len(firsts) |->
        [key |-> keys[firsts[m]], vertex |-> rs[firsts[m]][1],
         planes |-> PlanesAt(SeenAt(keys, keys[firsts[m]]), rs)]]

VerticesByKey(start, keys, rs) ==
    Repush(start, keys, rs) \o VertexEntries(keys, FirstNew(start, keys), rs)

\* mapPlaneToVertex for the registrations rs in order, on the map start
mapPlaneToVertex(start, rs) ==
    VerticesByKey(start, [i \in 1..Len(rs) |-> VertexString(rs[i][1])] \o <<>>, rs)

\* edges2planes, created as start, after the first n polygons were registered
EdgesToPlanes(start, polygons, n) ==
    mapPlaneToEdge(start, Concat([p \in 1..n |-> EdgeRegistrations(polygons[p])]))

\* vertices2planes, created as start, after the first n polygons were
\* registered
VerticesToPlanes(start, polygons, n) ==
    mapPlaneToVertex(start, Concat([p \in 1..n |-> VertexRegistrations(polygons[p])]))

---------------------------------------------------------------------------
(* part_001, fourth implementation: union of the original, the translated *)
(* surface and a connecting face per boundary edge                        *)

\* "Only create connecting faces for boundary edges"
HasOnePlane(item) == Len(item.planes) = 1

\* connectingFace
ConnectingFace(startpoint, endpoint, d) ==
    <<startpoint, endpoint, vec3add(endpoint, d), vec3add(startpoint, d)>>

\* the connecting faces of the boundary edges
ConnectingFaces(boundary, d) ==
    [i \in 1..Len(boundary) |->
        Part("wall", boundary[i].key,
             <<ConnectingFace(boundary[i].edge[1], boundary[i].edge[2], d)>>)]

\* the geometries unioned into result, in order; edges is edges2planes as
\* it was created
UnionPieces(d, polygons, edges) ==
    <<Part("original", <<>>, polygons),
      Part("translated", <<>>,
           [i \in 1..Len(polygons) |-> Reverse(translate(d, polygons[i]))])>>
    \o ConnectingFaces(SelectSeq(EdgesToPlanes(edges, polygons, Len(polygons)),
                                 HasOnePlane), d)

\* edges2planes is filled between the second and the third union
UnionMaps(n, polygons, edges) ==
    [k \in 1..(n + 1) |->
        IF k <= 2 THEN edges ELSE EdgesToPlanes(edges, polygons, Len(polygons))]

NoMaps(n) == [k \in 1..(n + 1) |-> <<>>]

UnionResult(d, pieces, polygons, raise, edges) ==
    UnionFold(d, <<>>, pieces, raise, UnionMaps(Len(pieces), polygons, edges),
              NoMaps(Len(pieces)), FALSE)

\* held: edges2planes as an earlier call left it
expandDirectional_union(opts, polygons, raise, held) ==
    UnionResult(DirectionVector(opts.direction, opts.delta),
                UnionPieces(DirectionVector(opts.direction, opts.delta), polygons,
                            NewMap(held)),
                polygons, raise, NewMap(held))

---------------------------------------------------------------------------
(* expandDirectional.js, second implementation: faces whose normal is     *)
(* close to the target direction are extruded, the others kept            *)

\* switch (direction) of the tolerance variant
TargetDirection(direction) ==
    CASE direction = "x" -> <<1, 0, 0>>
      [] direction = "y" -> <<0, 1, 0>>
      [] direction = "z" -> <<0, 0, 1>>
      [] OTHER -> <<0, 1, 0>>

\* the comparison with >= in place of > (the zero normal of a degenerate
\* polygon has dot 0, below every tolerance)
AbsExceeds_orEqual(num, len, tolerance) == len > 0 /\ Abs(num) * 10 >= tolerance * len

\* Math.abs(dot) > tolerance, for dot = num / len and tolerance in tenths
AbsExceeds(num, len, tolerance) == Abs(num) * 10 > tolerance * len

\* the condition of the if: Math.abs(dotProduct) > tolerance ||
\* Math.abs(dotProductNeg) > tolerance
IsAlignedNormal(normal, targetDirection, tolerance) ==
    \/ AbsExceeds(vec3dot(normal.n, targetDirection), normal.len, tolerance)
    \/ AbsExceeds(vec3dot(normal.n, vec3negate(targetDirection)), normal.len, tolerance)

IsAligned(polygon, targetDirection, tolerance) ==
    IsAlignedNormal(plane(polygon), targetDirection, tolerance)

\* vec3.scale(vec3.create(), normal, k) for the unit normal n / len
ScaleNormal(normal, k) ==
    <<(normal.n[1] * k) \div normal.len, (normal.n[2] * k) \div normal.len,
      (normal.n[3] * k) \div normal.len>>

\* what the face loop unions for one polygon
TolerancePiece(polygon, i, targetDirection, opts) ==
    IF IsAligned(polygon, targetDirection, opts.tolerance)
    THEN Part("slab", <<i>>,
              extrudePolygon(ScaleNormal(plane(polygon), 2 * opts.delta),
                             translate(ScaleNormal(plane(polygon), 0 - opts.delta),
                                       polygon)))
    ELSE Part("face", <<i>>, <<polygon>>)

TolerancePieces(opts, polygons) ==
    [i \in 1..Len(polygons) |->
        TolerancePiece(polygons[i], i, TargetDirection(opts.direction), opts)]

ToleranceResult(targetDirection, pieces, raise) ==
    UnionFold(targetDirection, <<>>, pieces, raise, NoMaps(Len(pieces)),
              NoMaps(Len(pieces)), TRUE)

expandDirectional_tolerance(opts, polygons, raise) ==
    ToleranceResult(TargetDirection(opts.direction), TolerancePieces(opts, polygons), raise)

---------------------------------------------------------------------------
(* getXZBounds, isWithinXZBounds, createYPillar (part_001, part_003) *)

AllVertices(polygons) == Concat(polygons)

SeqMin(s, k) == CHOOSE m \in {s[i][k] : i \in 1..Len(s)} : \A i \in 1..Len(s) : m <= s[i][k]
SeqMax(s, k) == CHOOSE m \in {s[i][k] : i \in 1..Len(s)} : \A i \in 1..Len(s) : m >= s[i][k]

BoundsOf(vs) ==
    [minX |-> SeqMin(vs, 1), maxX |-> SeqMax(vs, 1),
     minZ |-> SeqMin(vs, 3), maxZ |-> SeqMax(vs, 3)]

getXZBounds(polygons) == BoundsOf(AllVertices(polygons))

isWithinXZBounds_strict(point, bounds) ==
    /\ point[1] > bounds.minX
    /\ point[1] < bounds.maxX
    /\ point[3] > bounds.minZ
    /\ point[3] < bounds.maxZ
isWithinXZBounds(point, bounds) ==
    /\ point[1] >= bounds.minX
    /\ point[1] <= bounds.maxX
    /\ point[3] >= bounds.minZ
    /\ point[3] <= bounds.maxZ

\* the six faces of a pillar over its eight vertices
PillarFaces(vertices) ==
    << <<vertices[1], vertices[4], vertices[3], vertices[2]>>,
       <<vertices[5], vertices[6], vertices[7], vertices[8]>>,
       <<vertices[1], vertices[2], vertices[6], vertices[5]>>,
       <<vertices[2], vertices[3], vertices[7], vertices[6]>>,
       <<vertices[3], vertices[4], vertices[8], vertices[7]>>,
       <<vertices[4], vertices[1], vertices[5], vertices[8]>> >>

PillarBox(center, deltaY, halfX, halfZ) ==
    PillarFaces(<< <<center[1] - halfX, center[2] - deltaY, center[3] - halfZ>>,
                   <<center[1] + halfX, center[2] - deltaY, center[3] - halfZ>>,
                   <<center[1] + halfX, center[2] - deltaY, center[3] + halfZ>>,
                   <<center[1] - halfX, center[2] - deltaY, center[3] + halfZ>>,
                   <<center[1] - halfX, center[2] + deltaY, center[3] - halfZ>>,
                   <<center[1] + halfX, center[2] + deltaY, center[3] - halfZ>>,
                   <<center[1] + halfX, center[2] + deltaY, center[3] + halfZ>>,
                   <<center[1] - halfX, center[2] + deltaY, center[3] + halfZ>> >>)

createYPillar(center, deltaY, xSize, zSize) ==
    PillarBox(center, deltaY, xSize \div 2, zSize \div 2)

\* the midpoint of an edge
Midpoint(startpoint, endpoint) ==
    <<(startpoint[1] + endpoint[1]) \div 2, (startpoint[2] + endpoint[2]) \div 2,
      (startpoint[3] + endpoint[3]) \div 2>>

\* the maps when the k-th union is called, in a variant whose face loop
\* registers polygon i after the union made for it: a face piece is built
\* for polygon of[1], every later piece when all polygons are registered
RegisteredAt(pieces, k, polygons) ==
    IF k <= Len(pieces) /\ pieces[k].kind = "slab" THEN pieces[k].of[1] - 1
    ELSE Len(polygons)

---------------------------------------------------------------------------
(* part_001, third implementation: expandUp / expandDown, pillars on      *)
(* edges and vertices                                                      *)

\* deltaY and yOffset
DeltaY(opts) ==
    opts.delta * ((IF opts.expandUp THEN 1 ELSE 0) + (IF opts.expandDown THEN 1 ELSE 0))
YOffset(opts) ==
    IF opts.expandUp /\ opts.expandDown THEN 0
    ELSE IF opts.expandUp THEN opts.delta ELSE 0 - opts.delta

\* extrudeY for a face normal; 0 when the face is skipped by
\* Math.abs(normal[1]) > 0.1
ExtrudeYOf(normal, opts) ==
    IF Abs(normal.n[2]) * 10 > normal.len
    THEN (IF opts.expandUp /\ normal.n[2] > 0 THEN opts.delta ELSE 0)
         - (IF opts.expandDown /\ ~(normal.n[2] > 0) THEN opts.delta ELSE 0)
    ELSE 0

ExtrudeY(polygon, opts) == ExtrudeYOf(plane(polygon), opts)

\* does the face loop build a slab for the polygon
IsExtruded(polygon, opts) == Abs(ExtrudeY(polygon, opts)) > EPS

SlabBy(extrudeY, polygon) ==
    extrudePolygon(<<0, extrudeY * 2, 0>>, translate(<<0, 0 - extrudeY, 0>>, polygon))

UpDownSlab(polygon, opts) == SlabBy(ExtrudeY(polygon, opts), polygon)

\* xSize / zSize: Math.abs(edge[1][k] - edge[0][k]) > edgeLength * 0.5 ?
\* edgeLength : EPS * 4
PillarSpan(along, edgeLength) == IF Abs(along) * 2 > edgeLength THEN edgeLength ELSE EPS * 4

EdgePillarAt(midpoint, edgeLength, along, opts) ==
    createYPillar(<<midpoint[1], midpoint[2] + YOffset(opts), midpoint[3]>>,
                  DeltaY(opts) \div 2, PillarSpan(along[1], edgeLength),
                  PillarSpan(along[3], edgeLength))

\* the pillar of an edge-map entry
UpDownEdgePillar(edge, opts) ==
    EdgePillarAt(Midpoint(edge[1], edge[2]), vec3distance(edge[1], edge[2]),
                 vec3subtract(edge[2], edge[1]), opts)

\* the pillar of a vertex-map entry (xSize, zSize default to EPS * 2)
UpDownVertexPillar(vertex, opts) ==
    createYPillar(<<vertex[1], vertex[2] + YOffset(opts), vertex[3]>>,
                  DeltaY(opts) \div 2, EPS * 2, EPS * 2)

\* the polygons the face loop extrudes
Extruded(opts, polygons) ==
    SelectSeq([i \in 1..Len(polygons) |-> i], LAMBDA i : IsExtruded(polygons[i], opts))

\* the entries of edges2planes whose midpoint is within the bounds
EdgesWithin(map, bounds) ==
    SelectSeq(map, LAMBDA item : isWithinXZBounds(Midpoint(item.edge[1], item.edge[2]), bounds))

\* the entries of vertices2planes whose vertex is within the bounds
VerticesWithin(map, bounds) ==
    SelectSeq(map, LAMBDA item : isWithinXZBounds(item.vertex, bounds))

UpDownParts(extruded, es, vs, opts, polygons) ==
    [j \in 1..Len(extruded) |->
        Part("slab", <<extruded[j]>>, UpDownSlab(polygons[extruded[j]], opts))]
    \o [j \in 1..Len(es) |->
           Part("edgePillar", es[j].key, UpDownEdgePillar(es[j].edge, opts))]
    \o [j \in 1..Len(vs) |->
           Part("vertexPillar", vs[j].key, UpDownVertexPillar(vs[j].vertex, opts))]

\* the geometries unioned into result, in order; edges and vertices are
\* edges2planes and vertices2planes as they were created
UpDownPieces(opts, polygons, edges, vertices) ==
    UpDownParts(Extruded(opts, polygons),
                EdgesWithin(EdgesToPlanes(edges, polygons, Len(polygons)),
                            getXZBounds(polygons)),
                VerticesWithin(VerticesToPlanes(vertices, polygons, Len(polygons)),
                               getXZBounds(polygons)),
                opts, polygons)

\* edges2planes and vertices2planes when the k-th union is called
EdgeMaps(pieces, polygons, edges) ==
    [k \in 1..(Len(pieces) + 1) |->
        EdgesToPlanes(edges, polygons, RegisteredAt(pieces, k, polygons))]
VertexMaps(pieces, polygons, vertices) ==
    [k \in 1..(Len(pieces) + 1) |->
        VerticesToPlanes(vertices, polygons, RegisteredAt(pieces, k, polygons))]

UpDownResult(pieces, polygons, raise, edges, vertices) ==
    UnionFold(<<0, 0, 0>>, <<>>, pieces, raise, EdgeMaps(pieces, polygons, edges),
              VertexMaps(pieces, polygons, vertices), TRUE)

\* heldEdges, heldVertices: the two maps as an earlier call left them
expandDirectional_upDown(opts, polygons, raise, heldEdges, heldVertices) ==
    UpDownResult(UpDownPieces(opts, polygons, NewMap(heldEdges), NewMap(heldVertices)),
                 polygons, raise, NewMap(heldEdges), NewMap(heldVertices))

---------------------------------------------------------------------------
(* part_003: every face gets thickness along y, pillars on edges and      *)
(* vertices inside the bounds widened by EPS                              *)

YSides(bottomVertices, topVertices) ==
    <<Reverse(bottomVertices), topVertices>>
    \o [i \in 1..Len(bottomVertices) |->
           <<bottomVertices[i], bottomVertices[(i % Len(bottomVertices)) + 1],
             topVertices[(i % Len(bottomVertices)) + 1], topVertices[i]>>]

extrudePolygonYDirection(polygon, deltaY) ==
    YSides([i \in 1..Len(polygon) |->
               <<polygon[i][1], polygon[i][2] - deltaY, polygon[i][3]>>],
           [i \in 1..Len(polygon) |->
               <<polygon[i][1], polygon[i][2] + deltaY, polygon[i][3]>>])

\* expandedBounds
ExpandedBounds(xzBounds) ==
    [minX |-> xzBounds.minX - EPS, maxX |-> xzBounds.maxX + EPS,
     minZ |-> xzBounds.minZ - EPS, maxZ |-> xzBounds.maxZ + EPS]

\* Math.max(delta * 0.1, EPS * 20) and Math.max(delta * 0.05, EPS * 10)
EdgePillarSize(delta) == Max(delta \div 10, EPS * 20)
VertexPillarSize(delta) == Max(delta \div 20, EPS * 10)

AllFacesParts(es, vs, opts, polygons) ==
    [i \in 1..Len(polygons) |->
        Part("slab", <<i>>, extrudePolygonYDirection(polygons[i], opts.delta))]
    \o [j \in 1..Len(es) |->
           Part("edgePillar", es[j].key,
                createYPillar(Midpoint(es[j].edge[1], es[j].edge[2]), opts.delta,
                              EdgePillarSize(opts.delta), EdgePillarSize(opts.delta)))]
    \o [j \in 1..Len(vs) |->
           Part("vertexPillar", vs[j].key,
                createYPillar(vs[j].vertex, opts.delta,
                              VertexPillarSize(opts.delta), VertexPillarSize(opts.delta)))]

\* the geometries unioned into result, in order
AllFacesPieces(opts, polygons, edges, vertices) ==
    AllFacesParts(EdgesWithin(EdgesToPlanes(edges, polygons, Len(polygons)),
                              ExpandedBounds(getXZBounds(polygons))),
                  VerticesWithin(VerticesToPlanes(vertices, polygons, Len(polygons)),
                                 ExpandedBounds(getXZBounds(polygons))),
                  opts, polygons)

AllFacesResult(pieces, polygons, raise, edges, vertices) ==
    UnionFold(<<0, 0, 0>>, <<Part("original", <<>>, polygons)>>, pieces, raise,
              EdgeMaps(pieces, polygons, edges), VertexMaps(pieces, polygons, vertices),
              TRUE)

\* result starts as geom3.clone(geometry)
expandDirectional_allFaces(opts, polygons, raise, heldEdges, heldVertices) ==
    AllFacesResult(AllFacesPieces(opts, polygons, NewMap(heldEdges),
                                  NewMap(heldVertices)),
                   polygons, raise, NewMap(heldEdges), NewMap(heldVertices))

---------------------------------------------------------------------------
(* part_001, first implementation: faces towards y are moved along y and  *)
(* walled, the other faces get thickness along y within the XZ bounds     *)

\* isYFace: Math.abs(normal[1]) > 0.7
IsYFace(polygon) == Abs(plane(polygon).n[2]) * 10 > 7 * plane(polygon).len

\* translation = [0, yDirection * delta, 0]
YTranslationOf(normal, delta) == <<0, (IF normal.n[2] > 0 THEN delta ELSE 0 - delta), 0>>

\* sideWall of edge (v1, v2), wound by yDirection: [v1, v2, v2_t, v1_t] or
\* [v1, v1_t, v2_t, v2]
SideWallOf(edge, normal, delta) ==
    IF normal.n[2] > 0
    THEN <<edge[1], edge[2], vec3add(edge[2], YTranslationOf(normal, delta)),
           vec3add(edge[1], YTranslationOf(normal, delta))>>
    ELSE <<edge[1], vec3add(edge[1], YTranslationOf(normal, delta)),
           vec3add(edge[2], YTranslationOf(normal, delta)), edge[2]>>

\* allWithinBounds
AllWithinBounds(polygon, xzBounds) ==
    \A i \in 1..Len(polygon) : isWithinXZBounds(polygon[i], xzBounds)

\* the top and bottom side wall of every edge, in the order they are pushed
ThicknessWalls(es, delta) ==
    Concat([i \in 1..Len(es) |->
               << <<es[i][1], vec3add(es[i][1], <<0, delta, 0>>),
                    vec3add(es[i][2], <<0, delta, 0>>), es[i][2]>>,
                  <<es[i][1], es[i][2], vec3add(es[i][2], <<0, 0 - delta, 0>>),
                    vec3add(es[i][1], <<0, 0 - delta, 0>>)>> >>])

\* what the face loop pushes for polygon i
XZBoundsFace(polygon, i, delta, xzBounds) ==
    IF IsYFace(polygon)
    THEN <<Part("face", <<i>>, <<polygon>>),
           Part("translated", <<i>>, <<translate(YTranslationOf(plane(polygon), delta), polygon)>>),
           Part("sideWall", <<i>>,
                [e \in 1..Len(polygon) |->
                    SideWallOf(EdgesOf(polygon)[e], plane(polygon), delta)])>>
    ELSE <<Part("face", <<i>>, <<polygon>>)>>
         \o (IF AllWithinBounds(polygon, xzBounds)
             THEN <<Part("thickness", <<i>>,
                         <<translate(<<0, delta, 0>>, polygon),
                           Reverse(translate(<<0, 0 - delta, 0>>, polygon))>>
                         \o ThicknessWalls(EdgesOf(polygon), delta))>>
             ELSE <<>>)

XZBoundsParts(delta, polygons, xzBounds) ==
    Concat([i \in 1..Len(polygons) |-> XZBoundsFace(polygons[i], i, delta, xzBounds)])

expandDirectional_xzBounds(opts, polygons) ==
    Outcome("returned", <<0, 0, 0>>,
            XZBoundsParts(opts.delta, polygons, getXZBounds(polygons)),
            <<>>, <<>>, 0, TRUE)

---------------------------------------------------------------------------
(* The arrays of a call: the vertex arrays of the input polygons come      *)
(* first, every array the call creates is put behind them                  *)

\* a new array: map, slice, spread, or the vertices of a new polygon
Allocate(arrays, array) == Append(arrays, array)

\* Array.prototype.reverse: reverses the array it is called on, in place
ReverseAt(arrays, ref) == [arrays EXCEPT ![ref] = Reverse(@)]

\* polygon.vertices.reverse() straight on the array of the input polygon
MapThenReverse_inPlace(arrays, ref, d) == ReverseAt(arrays, ref)

\* polygon.vertices.map((vertex) => vec3.add(vec3.create(), vertex, d)), then
\* reverse() on the array map returned
MapThenReverse(arrays, ref, d) ==
    ReverseAt(Allocate(arrays, translate(d, arrays[ref])), Len(arrays) + 1)

\* poly3.transform(translationMatrix, polygon), then
\* [...polygon.vertices].reverse() on the transformed polygon
TransformSpreadReverse(arrays, ref, d) ==
    ReverseAt(Allocate(Allocate(arrays, translate(d, arrays[ref])),
                       translate(d, arrays[ref])),
              Len(arrays) + 2)

\* vertices.map(...) for the bottom and the top, then
\* bottomVertices.slice().reverse()
MapSliceReverse(arrays, ref, d) ==
    ReverseAt(Allocate(Allocate(Allocate(arrays, translate(vec3negate(d), arrays[ref])),
                                translate(d, arrays[ref])),
                       translate(vec3negate(d), arrays[ref])),
              Len(arrays) + 3)

\* the array operations of implementation v for the input polygon at ref
ArrayStep(v, arrays, ref, d, xzBounds) ==
    CASE v \in {"boundaryWalls", "toFixed", "everyEdgeWalls"} -> MapThenReverse(arrays, ref, d)
      [] v = "union" -> TransformSpreadReverse(arrays, ref, d)
      [] v = "allFaces" -> MapSliceReverse(arrays, ref, d)
      [] v = "xzBounds" ->
            IF ~IsYFace(arrays[ref]) /\ AllWithinBounds(arrays[ref], xzBounds)
            THEN MapSliceReverse(arrays, ref, d)
            ELSE arrays
      [] OTHER -> arrays

\* the arrays once the first n input polygons went through the face loop
RECURSIVE ArraysAfter(_, _, _, _, _)
ArraysAfter(v, polygons, n, d, xzBounds) ==
    IF n = 0 THEN polygons
    ELSE ArrayStep(v, ArraysAfter(v, polygons, n - 1, d, xzBounds), n, d, xzBounds)

\* how many input polygons went through the face loop when union call raise
\* raised (raise = 0: none raised)
Processed(v, polygons, raise) ==
    CASE v = "union" /\ raise = 1 -> 0
      [] v = "allFaces" /\ raise \in 1..Len(polygons) -> raise
      [] OTHER -> Len(polygons)

\* the vector the arrays are moved by
ArrayVector(v, opts) ==
    IF v \in {"allFaces", "xzBounds"} THEN <<0, opts.delta, 0>>
    ELSE DirectionVector(opts.direction, opts.delta)

\* geom3.toPolygons(geometry) after the call: the arrays of the input
InputAfter(v, opts, polygons, raise) ==
    SubSeq(ArraysAfter(v, polygons, Processed(v, polygons, raise), ArrayVector(v, opts),
                       getXZBounds(polygons)),
           1, Len(polygons))

---------------------------------------------------------------------------
(* The state machine: a caller invokes one implementation and gets a      *)
(* geometry back, or the exception a collaborator raised                  *)

NoOptions == [delta |-> 0, direction |-> "", tolerance |-> 0,
              expandUp |-> FALSE, expandDown |-> FALSE]

NoKeys == [by |-> "none", edges |-> <<>>, keys |-> <<>>, swapped |-> <<>>]

\* no call made yet
Idle ==
    /\ pc = "idle"
    /\ variant = "none"
    /\ options = NoOptions
    /\ geometry = <<>>
    /\ dirVec = <<0, 0, 0>>
    /\ parts = <<>>
    /\ edgeMap = <<>>
    /\ vertexMap = <<>>
    /\ unionCalls = 0
    /\ raisedAt = 0
    /\ retessellated = FALSE
    /\ stale = FALSE
    /\ input = <<>>

Init ==
    /\ Idle
    /\ keyed = NoKeys

\* the call of implementation v with (opts, geom) ends as out
Call(v, opts, geom, raise, out) ==
    /\ raisedAt' = raise
    /\ stale' = (edgeMap # <<>> \/ vertexMap # <<>>)
    /\ input' = InputAfter(v, opts, geom, raise)
    /\ pc' = out.pc
    /\ variant' = v
    /\ options' = opts
    /\ geometry' = geom
    /\ dirVec' = out.dirVec
    /\ parts' = out.parts
    /\ edgeMap' = out.edgeMap
    /\ vertexMap' = out.vertexMap
    /\ unionCalls' = out.unionCalls
    /\ retessellated' = out.retessellated
    /\ UNCHANGED keyed

\* the number of unionGeom3Sub calls a call makes when none raises
UnionsOfUnion(opts, polygons, held) ==
    Len(UnionPieces(DirectionVector(opts.direction, opts.delta), polygons, NewMap(held)))
UnionsOfUpDown(opts, polygons, heldEdges, heldVertices) ==
    Len(UpDownPieces(opts, polygons, NewMap(heldEdges), NewMap(heldVertices)))
UnionsOfAllFaces(opts, polygons, heldEdges, heldVertices) ==
    Len(AllFacesPieces(opts, polygons, NewMap(heldEdges), NewMap(heldVertices)))

ExpandBoundaryWalls ==
    /\ pc = "idle"
    /\ \E opts \in PlainOptions, geom \in Meshes :
           Call("boundaryWalls", opts, geom, 0,
                expandDirectional_boundaryWalls(opts, geom, edgeMap))

ExpandEveryEdgeWalls ==
    /\ pc = "idle"
    /\ \E opts \in PlainOptions, geom \in Meshes :
           Call("everyEdgeWalls", opts, geom, 0, expandDirectional_everyEdgeWalls(opts, geom))

ExpandUnion ==
    /\ pc = "idle"
    /\ \E opts \in PlainOptions, geom \in Meshes :
           \E raise \in 0..UnionsOfUnion(opts, geom, edgeMap) :
               Call("union", opts, geom, raise,
                    expandDirectional_union(opts, geom, raise, edgeMap))

ExpandTolerance ==
    /\ pc = "idle"
    /\ \E opts \in {o \in Options : o.expandUp /\ ~o.expandDown}, geom \in Meshes :
           \E raise \in 0..Len(TolerancePieces(opts, geom)) :
               Call("tolerance", opts, geom, raise, expandDirectional_tolerance(opts, geom, raise))

ExpandUpDown ==
    /\ pc = "idle"
    /\ \E opts \in {o \in Options : o.tolerance = 9 /\ o.direction = "y"}, geom \in Meshes :
           \E raise \in 0..UnionsOfUpDown(opts, geom, edgeMap, vertexMap) :
               Call("upDown", opts, geom, raise,
                    expandDirectional_upDown(opts, geom, raise, edgeMap, vertexMap))

ExpandToFixed ==
    /\ pc = "idle"
    /\ \E opts \in PlainOptions, geom \in Meshes :
           Call("toFixed", opts, geom, 0, expandDirectional_toFixed(opts, geom, edgeMap))

ExpandXZBounds ==
    /\ pc = "idle"
    /\ \E opts \in {o \in PlainOptions : o.direction = "y"}, geom \in Meshes :
           Call("xzBounds", opts, geom, 0, expandDirectional_xzBounds(opts, geom))

ExpandAllFaces ==
    /\ pc = "idle"
    /\ \E opts \in {o \in PlainOptions : o.direction = "y"}, geom \in Meshes :
           \E raise \in 0..UnionsOfAllFaces(opts, geom, edgeMap, vertexMap) :
               Call("allFaces", opts, geom, raise,
                    expandDirectional_allFaces(opts, geom, raise, edgeMap, vertexMap))

\* the caller is done with the outcome; nothing of the call is kept
Release ==
    /\ pc # "idle"
    /\ pc' = "idle"
    /\ variant' = "none"
    /\ options' = NoOptions
    /\ geometry' = <<>>
    /\ dirVec' = <<0, 0, 0>>
    /\ parts' = <<>>
    /\ edgeMap' = <<>>
    /\ vertexMap' = <<>>
    /\ unionCalls' = 0
    /\ raisedAt' = 0
    /\ retessellated' = FALSE
    /\ stale' = FALSE
    /\ input' = <<>>
    /\ UNCHANGED keyed

Next ==
    \/ ExpandBoundaryWalls
    \/ ExpandEveryEdgeWalls
    \/ ExpandUnion
    \/ ExpandTolerance
    \/ ExpandUpDown
    \/ ExpandAllFaces
    \/ ExpandXZBounds
    \/ ExpandToFixed
    \/ Release

Spec == Init /\ [][Next]_vars

---------------------------------------------------------------------------
(* A caller that requires one implementation and calls it again and again, *)
(* with the maps of the call before still in memory                        *)

RepeatMeshes == {Tri, Sliver}
RepeatOptions == {o \in Options : o.tolerance = 9 /\ o.direction = "y" /\ o.expandUp}

RepeatBoundaryWalls ==
    /\ variant \in {"none", "boundaryWalls"}
    /\ \E opts \in PlainOptions, geom \in RepeatMeshes :
           Call("boundaryWalls", opts, geom, 0,
                expandDirectional_boundaryWalls(opts, geom, edgeMap))

RepeatUpDown ==
    /\ variant \in {"none", "upDown"}
    /\ \E opts \in RepeatOptions, geom \in RepeatMeshes :
           \E raise \in 0..UnionsOfUpDown(opts, geom, edgeMap, vertexMap) :
               Call("upDown", opts, geom, raise,
                    expandDirectional_upDown(opts, geom, raise, edgeMap, vertexMap))

NextRepeated ==
    \/ RepeatBoundaryWalls
    \/ RepeatUpDown

SpecRepeated == Init /\ [][NextRepeated]_vars

---------------------------------------------------------------------------
(* The key functions applied to two edges and to the same edges traversed  *)
(* the other way                                                           *)

\* coordinates in units: either side of zero below half a millionth, the
\* tie, one millionth, and a number with a fraction
KeyCoordinates == {0 - 4, 0, 4, 5, 10, One + Half}
KeyVertices == {<<x, 0, 0>> : x \in KeyCoordinates} \cup {<<0, 0, One>>}
KeyEdges == KeyVertices \X KeyVertices

InitKeys ==
    /\ Idle
    /\ \E e1 \in KeyEdges, e2 \in KeyEdges : keyed = [NoKeys EXCEPT !.edges = <<e1, e2>>]

\* what a call of expandDirectional reads and writes
callVars == <<pc, variant, options, geometry, dirVec, parts, edgeMap, vertexMap,
              unionCalls, raisedAt, retessellated, stale, input>>

KeyByRound ==
    /\ keyed.by = "none"
    /\ keyed' = [keyed EXCEPT
                     !.by = "round",
                     !.keys = [i \in 1..2 |-> createEdgeKey(keyed.edges[i][1], keyed.edges[i][2])],
                     !.swapped = [i \in 1..2 |-> createEdgeKey(keyed.edges[i][2], keyed.edges[i][1])]]
    /\ UNCHANGED callVars

KeyByToFixed ==
    /\ keyed.by = "none"
    /\ keyed' = [keyed EXCEPT
                     !.by = "toFixed",
                     !.keys = [i \in 1..2 |-> createEdgeKey_toFixed(keyed.edges[i][1], keyed.edges[i][2])],
                     !.swapped = [i \in 1..2 |-> createEdgeKey_toFixed(keyed.edges[i][2], keyed.edges[i][1])]]
    /\ UNCHANGED callVars

KeyByToString ==
    /\ keyed.by = "none"
    /\ keyed' = [keyed EXCEPT
                     !.by = "toString",
                     !.keys = [i \in 1..2 |-> EdgeKeyOf(<<keyed.edges[i][1], keyed.edges[i][2]>>)],
                     !.swapped = [i \in 1..2 |-> EdgeKeyOf(<<keyed.edges[i][2], keyed.edges[i][1]>>)]]
    /\ UNCHANGED callVars

NextKeys ==
    \/ KeyByRound
    \/ KeyByToFixed
    \/ KeyByToString

SpecKeys == InitKeys /\ [][NextKeys]_vars

---------------------------------------------------------------------------
(* Properties *)

Returned == pc = "returned"

\* the polygon list of the returned geometry (translate variants)
ReturnedPolygons == PolygonsOf(parts)

\* number of directed edges of es equal to e
Uses(es, e) == Cardinality({j \in 1..Len(es) : es[j] = e})

\* every undirected edge is used by exactly two polygons, in opposite directions
Watertight(polygons) ==
    LET es == AllEdges(polygons)
    IN  \A i \in 1..Len(es) :
            /\ es[i][1] # es[i][2]
            /\ Uses(es, es[i]) = 1
            /\ Uses(es, <<es[i][2], es[i][1]>>) = 1

\* C1: whenever a translate-and-wall implementation returns, every undirected
\* edge of the returned polygon list is used by exactly two returned polygons
\* that traverse it in opposite directions.
C1_OutputWatertight ==
    (Returned /\ variant \in {"boundaryWalls", "everyEdgeWalls"})
        => Watertight(ReturnedPolygons)

\* the case the claim names: the unit cube grown by delta = 1 along y
C1_CubeGrownAlongY ==
    (Returned /\ variant = "boundaryWalls" /\ geometry = Cube
        /\ options.delta = One /\ options.direction = "y")
        => Watertight(ReturnedPolygons)


Called == pc # "idle"

\* a closed, valid mesh: watertight and without degenerate polygon
IsDegenerate(polygon) ==
    \/ Cardinality({polygon[i] : i \in 1..Len(polygon)}) < 3
    \/ plane(polygon).n = <<0, 0, 0>>
HasDegenerate(polygons) == \E i \in 1..Len(polygons) : IsDegenerate(polygons[i])
ValidClosed(polygons) == Watertight(polygons) /\ ~HasDegenerate(polygons)

\* number of times polygon p occurs in the sequence ps
Occurrences(ps, p) == Cardinality({j \in 1..Len(ps) : ps[j] = p})

\* ps holds the faces of mesh and nothing else
SameFaces(ps, mesh) ==
    /\ Len(ps) = Len(mesh)
    /\ \A i \in 1..Len(mesh) : Occurrences(ps, mesh[i]) = Occurrences(mesh, mesh[i])

\* C2: with delta = 0 on a valid closed mesh, the returned mesh holds the
\* faces of the input and nothing else.
C2_ZeroGrowthIdentity ==
    (Returned /\ variant \in {"boundaryWalls", "upDown"} /\ options.delta = 0
        /\ ValidClosed(geometry))
        => SameFaces(ReturnedPolygons, geometry)

\* the set of vertices of a sequence of polygons
VerticesIn(polygons) ==
    UNION {{polygons[i][j] : j \in 1..Len(polygons[i])} : i \in 1..Len(polygons)}

\* the least and the greatest coordinate k over all pieces of the result
Extent(k) ==
    LET cs == {v[k] : v \in VerticesIn(PolygonsOf(parts))}
    IN  <<CHOOSE m \in cs : \A c \in cs : m <= c, CHOOSE m \in cs : \A c \in cs : m >= c>>

\* C3: the unit cube with delta = 1, expandUp only: the parts span exactly
\* y in [0, 2].
C3_CubeUpExtent ==
    (Returned /\ variant = "upDown" /\ geometry = Cube /\ options.delta = One
        /\ options.expandUp /\ ~options.expandDown)
        => Extent(2) = <<0, 2 * One>>

\* C4: the unit cube with delta = 1, expandUp and expandDown: the parts span
\* exactly the box x in [0,1], y in [-1,2], z in [0,1].
C4_CubeSymmetricExtent ==
    (Returned /\ variant = "upDown" /\ geometry = Cube /\ options.delta = One
        /\ options.expandUp /\ options.expandDown)
        => /\ Extent(1) = <<0, One>>
           /\ Extent(2) = <<0 - One, 2 * One>>
           /\ Extent(3) = <<0, One>>

IsPillar(part) == part.kind \in {"edgePillar", "vertexPillar"}

\* C5: every vertex of every edge pillar and vertex pillar lies within the
\* XZ bounds of the input mesh.
C5_PillarsWithinFootprint ==
    (Returned /\ variant \in {"upDown", "allFaces"})
        => \A i \in 1..Len(parts) :
               IsPillar(parts[i])
                   => \A v \in VerticesIn(parts[i].polys) :
                          isWithinXZBounds(v, getXZBounds(geometry))


\* how many faces registered the edge of an edge-map entry
EntryCount(item) == IF variant = "union" THEN Len(item.planes) ELSE item.count

\* the connector walls built for the edge of key
WallsFor(key) == {i \in 1..Len(parts) : parts[i].kind = "wall" /\ parts[i].of = key}

\* C6 as claimed: every edge registered by a number of faces other than 2
\* (one face, or three and more) gets a connector wall.
C6_WallUnlessTwoFaces ==
    (Returned /\ variant \in {"boundaryWalls", "union"})
        => \A i \in 1..Len(edgeMap) :
               EntryCount(edgeMap[i]) # 2 => WallsFor(edgeMap[i].key) # {}

\* C6 amended: when the call returns, an edge registered by exactly one face
\* has exactly one connector wall, and an edge registered by two or more
\* faces (three and more included) has none.
C6_WallIffOneFace ==
    (Returned /\ variant \in {"boundaryWalls", "union"})
        => \A i \in 1..Len(edgeMap) :
               Cardinality(WallsFor(edgeMap[i].key))
                   = (IF EntryCount(edgeMap[i]) = 1 THEN 1 ELSE 0)

C6_Witness ==
    /\ Returned
    /\ variant = "boundaryWalls"
    /\ options.delta = One
    /\ \E i \in 1..Len(edgeMap) :
           EntryCount(edgeMap[i]) = 1 /\ Cardinality(WallsFor(edgeMap[i].key)) = 1
    /\ \E i \in 1..Len(edgeMap) :
           EntryCount(edgeMap[i]) = 3 /\ WallsFor(edgeMap[i].key) = {}

\* C7: a mesh with a degenerate polygon is rejected before any processing:
\* the call fails without a single union, and never returns a mesh.
C7_DegenerateRejected ==
    (Called /\ variant \in {"boundaryWalls", "tolerance"} /\ HasDegenerate(geometry))
        => (pc = "threw" /\ unionCalls = 0 /\ parts = <<>>)

\* C8: when a unionGeom3Sub call raises, no geometry is returned, the
\* raising call is the last union started, retessellate is not executed, and
\* the mesh accumulated before it stays unreturned.
C8_UnionFailureIsFatal ==
    (variant \in {"tolerance", "upDown"} /\ raisedAt # 0)
        => /\ pc = "threw"
           /\ unionCalls = raisedAt
           /\ ~retessellated
           /\ Len(parts) = raisedAt - 1

C8_Witness ==
    /\ variant = "upDown"
    /\ geometry = Cube
    /\ raisedAt = 3
    /\ pc = "threw"
    /\ Len(parts) = 2
    /\ parts[2].kind = "edgePillar"

\* the outcome of implementation v on (opts, geom) when union call raise
\* raises, in a process that never called it before
Run(v, opts, geom, raise) ==
    CASE v = "boundaryWalls" -> expandDirectional_boundaryWalls(opts, geom, <<>>)
      [] v = "everyEdgeWalls" -> expandDirectional_everyEdgeWalls(opts, geom)
      [] v = "union" -> expandDirectional_union(opts, geom, raise, <<>>)
      [] v = "tolerance" -> expandDirectional_tolerance(opts, geom, raise)
      [] v = "upDown" -> expandDirectional_upDown(opts, geom, raise, <<>>, <<>>)
      [] v = "allFaces" -> expandDirectional_allFaces(opts, geom, raise, <<>>, <<>>)
      [] v = "xzBounds" -> expandDirectional_xzBounds(opts, geom)
      [] v = "toFixed" -> expandDirectional_toFixed(opts, geom, <<>>)

\* C9: a direction other than "x", "y", "z" gives the direction vector of
\* "y" ([0, delta, 0], target [0, 1, 0]) and the same result as direction "y".
C9_UnknownDirectionIsY ==
    (Called /\ variant \in {"boundaryWalls", "tolerance"}
        /\ options.direction \notin {"x", "y", "z"})
        => /\ dirVec = (IF variant = "tolerance" THEN <<0, 1, 0>>
                        ELSE <<0, options.delta, 0>>)
           /\ LET asY == Run(variant, [options EXCEPT !.direction = "y"], geometry, raisedAt)
              IN  pc = asY.pc /\ parts = asY.parts

C9_Witness ==
    /\ Returned
    /\ variant = "boundaryWalls"
    /\ options.direction = "w"
    /\ options.delta = One
    /\ geometry = Cube
    /\ dirVec = <<0, One, 0>>

\* d = dot(normal, targetDirection) of input polygon i, as numerator over
\* the length of the unnormalised normal
DotNum(i) == vec3dot(plane(geometry[i]).n, dirVec)
DotLen(i) == plane(geometry[i]).len

\* C10: a face is extruded iff d > tolerance or d < -tolerance; with |d| equal
\* to the tolerance it is kept as it is; the face with its normal negated
\* gets the same verdict.
C10_StrictSymmetricThreshold ==
    (Called /\ variant = "tolerance")
        => \A i \in 1..Len(parts) :
               /\ (parts[i].kind = "slab")
                      <=> \/ DotNum(i) * 10 > options.tolerance * DotLen(i)
                          \/ DotNum(i) * 10 < 0 - options.tolerance * DotLen(i)
               /\ parts[i].kind \in {"slab", "face"}
               /\ Abs(DotNum(i)) * 10 = options.tolerance * DotLen(i)
                      => parts[i] = Part("face", <<i>>, <<geometry[i]>>)
               /\ TolerancePiece(Reverse(geometry[i]), i, dirVec, options).kind
                      = parts[i].kind

C10_Witness ==
    /\ Returned
    /\ variant = "tolerance"
    /\ geometry = Wedge
    /\ options.tolerance = 8
    /\ options.direction = "y"
    /\ options.delta = One
    /\ DotNum(5) * 10 = options.tolerance * DotLen(5)
    /\ parts[5].kind = "face"
    /\ parts[3].kind = "slab"

\* C11: a call ends as the same call ends in a process that made no call
\* before (same outcome, same pieces), and its maps hold the registrations of
\* this call only: nothing an earlier call registered is in them.
C11_NoStateAcrossCalls ==
    Called
        => /\ pc = Run(variant, options, geometry, raisedAt).pc
           /\ parts = Run(variant, options, geometry, raisedAt).parts
           /\ edgeMap = Run(variant, options, geometry, raisedAt).edgeMap
           /\ vertexMap = Run(variant, options, geometry, raisedAt).vertexMap

\* a call of the expandUp/expandDown variant that returned while the maps
\* of the call before still held entries
C11_Witness ==
    /\ stale
    /\ Returned
    /\ variant = "upDown"
    /\ geometry = Tri
    /\ Len(edgeMap) = 3
    /\ Len(vertexMap) = 3

\* the number a key function writes for coordinate num: the rounded number,
\* the signed count of millionths, or the number itself
RoundedBy(by, num) ==
    CASE by = "round" -> round(num)
      [] by = "toFixed" -> (IF num < 0 THEN 0 - Millionths(num) ELSE Millionths(num))
      [] OTHER -> num
RoundedEnds(by, edge) ==
    {[c \in 1..3 |-> RoundedBy(by, edge[1][c])], [c \in 1..3 |-> RoundedBy(by, edge[2][c])]}

\* C12: each of the three key functions gives an edge and the same edge
\* traversed the other way the same key, and gives two edges whose sets of
\* rounded endpoints differ different keys.
C12_KeysUndirectedAndDistinct ==
    keyed.by # "none"
        => /\ keyed.swapped = keyed.keys
           /\ RoundedEnds(keyed.by, keyed.edges[1]) # RoundedEnds(keyed.by, keyed.edges[2])
                  => keyed.keys[1] # keyed.keys[2]

\* toFixed keys of an edge and of the edge between the same rounded points
\* traversed the other way: one key for both
C12_Witness ==
    /\ keyed.by = "toFixed"
    /\ keyed.edges = <<(<<(<<4, 0, 0>>), (<<0, 0, One>>)>>), (<<(<<0, 0, One>>), (<<0, 0, 0>>)>>)>>
    /\ keyed.keys[1] = keyed.keys[2]
    /\ keyed.swapped = keyed.keys

\* the sum of the entry sizes of the first n entries of the edge map
RECURSIVE EntrySizes(_)
EntrySizes(n) == IF n = 0 THEN 0 ELSE EntrySizes(n - 1) + EntryCount(edgeMap[n])

\* C13: when every edge of the input is used by exactly two polygons in
\* opposite directions and the call returns, every edge-map entry has size 2,
\* the entry sizes add up to the number of polygon edges of the input, and
\* no connector wall was built.
C13_ClosedMeshHasNoBoundary ==
    (Returned /\ variant \in {"boundaryWalls", "union"} /\ Watertight(geometry))
        => /\ \A i \in 1..Len(edgeMap) : EntryCount(edgeMap[i]) = 2
           /\ EntrySizes(Len(edgeMap)) = Len(AllEdges(geometry))
           /\ \A i \in 1..Len(parts) : parts[i].kind # "wall"

\* the cube through the counting pass: twelve entries for twenty-four edges
C13_Witness ==
    /\ Returned
    /\ variant = "boundaryWalls"
    /\ geometry = Cube
    /\ options.delta # 0
    /\ Len(edgeMap) = 12
    /\ Len(parts) = 12

\* the input polygons that use edge, in either direction
FacesAt(edge) ==
    {p \in 1..Len(geometry) :
        \E i \in 1..Len(geometry[p]) :
            EdgesOf(geometry[p])[i] \in {edge, <<edge[2], edge[1]>>}}

\* the face classifier of the tolerance variant on input polygon p
ClassifiedAligned(p) ==
    IsAligned(geometry[p], TargetDirection(options.direction), options.tolerance)

\* a connector for edge: a piece that is neither a slab nor a kept face and
\* has a polygon through both ends of the edge
ConnectorsFor(edge) ==
    {k \in 1..Len(parts) :
        /\ parts[k].kind \notin {"slab", "face"}
        /\ \E j \in 1..Len(parts[k].polys) :
               {edge[1], edge[2]} \subseteq VerticesIn(<<parts[k].polys[j]>>)}

\* C14: when the tolerance variant returns, every input edge that borders a
\* face classified aligned and a face classified not aligned has a connector
\* in the result.
C14_MixedEdgeHasConnector ==
    (Returned /\ variant = "tolerance")
        => \A e \in {AllEdges(geometry)[i] : i \in 1..Len(AllEdges(geometry))} :
               ((\E p \in FacesAt(e) : ClassifiedAligned(p))
                    /\ (\E q \in FacesAt(e) : ~ClassifiedAligned(q)))
                   => ConnectorsFor(e) # {}

\* the vertices of the slab the claim describes for a face grown by extrudeY:
\* the face where it is, and the face moved by extrudeY along y
NearAndFar(polygon, extrudeY) ==
    VerticesIn(<<polygon>>) \cup VerticesIn(<<translate(<<0, extrudeY, 0>>, polygon)>>)

\* C15: when exactly one of expandUp and expandDown is set and the call
\* returns, the slab of every extruded face has its near face on the input
\* face and its far face delta further in the active direction: its vertices
\* are those of the face and those of the face moved by extrudeY.
C15_OneSidedSlabFromFace ==
    (Returned /\ variant = "upDown" /\ options.expandUp # options.expandDown)
        => \A k \in 1..Len(parts) :
               parts[k].kind = "slab"
                   => VerticesIn(parts[k].polys)
                          = NearAndFar(geometry[parts[k].of[1]],
                                       ExtrudeY(geometry[parts[k].of[1]], options))

\* the vertex orders that describe the same wound polygon: its rotations
Rotations(polygon) ==
    {[i \in 1..Len(polygon) |-> polygon[((i + k - 1) % Len(polygon)) + 1]] :
        k \in 0..(Len(polygon) - 1)}

\* C16: when the union variant returns, the connecting face of a boundary
\* edge (startpoint, endpoint) is wound startpoint, endpoint, endpoint + D,
\* startpoint + D when delta > 0, and the other way round when delta < 0.
C16_WallWindingFollowsSign ==
    (Returned /\ variant = "union")
        => \A i \in 1..Len(edgeMap) : \A k \in WallsFor(edgeMap[i].key) :
               /\ options.delta > 0
                      => parts[k].polys[1]
                             \in Rotations(ConnectingFace(edgeMap[i].edge[1],
                                                          edgeMap[i].edge[2], dirVec))
               /\ options.delta < 0
                      => parts[k].polys[1]
                             \in Rotations(Reverse(ConnectingFace(edgeMap[i].edge[1],
                                                                  edgeMap[i].edge[2], dirVec)))

\* the slabs built for input polygon p, and the pieces that are polygon p
\* itself, vertex for vertex
SlabsOf(p) == {k \in 1..Len(parts) : parts[k].kind = "slab" /\ parts[k].of = <<p>>}
KeptAs(p) ==
    {k \in 1..Len(parts) : parts[k].kind # "slab" /\ parts[k].polys = <<geometry[p]>>}

\* C17: when the tolerance variant or the expandUp/expandDown variant
\* returns, every input polygon without a slab is in the result itself,
\* with its vertices in their order, exactly once.
C17_UnextrudedFacesKept ==
    (Returned /\ variant \in {"tolerance", "upDown"})
        => \A p \in 1..Len(geometry) :
               SlabsOf(p) = {} => Cardinality(KeptAs(p)) = 1

\* the same for the tolerance variant alone
C17_ToleranceKeepsFaces ==
    (Returned /\ variant = "tolerance")
        => \A p \in 1..Len(geometry) :
               SlabsOf(p) = {} => Cardinality(KeptAs(p)) = 1

\* the pillars built for the entry of key
PillarsFor(kind, key) == {k \in 1..Len(parts) : parts[k].kind = kind /\ parts[k].of = key}

\* the thickness built for input polygon p
ThicknessOf(p) == {k \in 1..Len(parts) : parts[k].kind = "thickness" /\ parts[k].of = <<p>>}

\* C18: when a call returns, the bounds check has let every entry through:
\* there is exactly one edge pillar per edge key and exactly one vertex
\* pillar per vertex key, and in the XZ-bounds variant every face that is
\* not a Y face has its thickness (allWithinBounds was true).
C18_FootprintNeverSuppresses ==
    /\ (Returned /\ variant \in {"upDown", "allFaces"})
           => /\ \A i \in 1..Len(edgeMap) :
                     Cardinality(PillarsFor("edgePillar", edgeMap[i].key)) = 1
              /\ \A i \in 1..Len(vertexMap) :
                     Cardinality(PillarsFor("vertexPillar", vertexMap[i].key)) = 1
    /\ (Returned /\ variant = "xzBounds")
           => \A p \in 1..Len(geometry) :
                  ~IsYFace(geometry[p]) => Cardinality(ThicknessOf(p)) = 1

\* the wedge through the XZ-bounds variant: its slanted and upright faces
\* all got their thickness
C18_Witness ==
    /\ Returned
    /\ variant = "xzBounds"
    /\ geometry = Wedge
    /\ \E p \in 1..Len(geometry) : ~IsYFace(geometry[p]) /\ ThicknessOf(p) # {}

\* the cube through the expandUp/expandDown variant: twelve edge pillars and
\* eight vertex pillars
C18_CubePillars ==
    (Returned /\ variant = "upDown" /\ geometry = Cube)
        => /\ Len(edgeMap) = 12
           /\ Len(vertexMap) = 8
           /\ Cardinality({k \in 1..Len(parts) : IsPillar(parts[k])}) = 20

\* C19: when a call returns, the polygon list of the input and the vertex
\* array of every input polygon are what they were when the call started:
\* same polygons, same vertices, same order.
C19_InputUnchanged ==
    Returned => input = geometry

\* the union variant returned for the triangle: the translated surface is the
\* reversed triangle, moved, and the triangle is as it was
C19_Witness ==
    /\ Returned
    /\ variant = "union"
    /\ geometry = Tri
    /\ options.delta = One
    /\ options.direction = "y"
    /\ parts[2].polys = <<Reverse(translate(dirVec, Tri[1]))>>
    /\ input = Tri

====
